---- MODULE Spec2Model ----
(***************************************************************************)
(* Model of the BIP39 mnemonic finder: the multi-process pipeline of       *)
(* find_bip39_mnemonic_mp.py (generator, checker pool, logger, main) and   *)
(* the single-flow loop of find_bip39_mnemonic_st.py.                      *)
(*                                                                         *)
(* The bip_utils library is external: its checksum decoder and its two     *)
(* derivation schemes are fixed deterministic functions, the latter into a *)
(* small identifier space.                                                 *)
(***************************************************************************)
EXTENDS Integers, Sequences, FiniteSets, TLC

(***************************************************************************)
(* Bounds of the model.                                                    *)
(***************************************************************************)
\* number of checker processes started by check_all_mnemonics
PROCESS_NUM == 2
\* capacity of the mnemonic queue
MNEMONIC_QUEUE_MAX_SIZE == 2
\* capacity of the logger queue
LOG_QUEUE_MAX_SIZE == 1

(***************************************************************************)
(* Configuration constants of the scripts.                                 *)
(***************************************************************************)
BIP32_ENABLED == TRUE
BIP32_DERIVATION_PATHS == <<"m/44'/0'/0'", "m/44'/60'/0'">>
BIP32_ADDRESSES_NUM == 1
BIP44_ENABLED == TRUE
BIP44_ACCOUNTS_NUM == 1
BIP44_ADDRESSES_NUM == 1
MNEMONIC_PASSPHRASES == <<"", "test">>

\* The word lists the runs are configured with (MNEMONIC_WORDS): one list
\* of acceptable words per position of the phrase.
WordConfigs ==
    { << <<"a">> >>,
      << <<"a", "b">> >>,
      << <<"b", "a">> >>,
      << <<"b">>, <<"a", "b">> >>,
      << <<"a", "b">>, <<"a", "b">> >>,
      << <<"a", "b">>, <<>> >> }

\* The values of MNEMONIC_FIXED the runs are configured with: <<>> stands
\* for the empty string (no fixed mnemonic), the others for the word
\* sequence Bip39Mnemonic.FromString makes of the string.
FixedConfigs == { <<>>, <<"a">>, <<"a", "a">> }

Procs == 1..PROCESS_NUM

\* identifiers one (mnemonic, passphrase list) scan derives
get_addresses_per_mnemonic ==
    ( (IF BIP32_ENABLED
       THEN Len(BIP32_DERIVATION_PATHS) * BIP32_ADDRESSES_NUM ELSE 0)
    + (IF BIP44_ENABLED THEN BIP44_ADDRESSES_NUM * BIP44_ACCOUNTS_NUM ELSE 0) )
    * Len(MNEMONIC_PASSPHRASES)

\* The identifier space of the external derivation: the scan of one mnemonic
\* derives distinct identifiers and misses two of the space.
NumAddrs == get_addresses_per_mnemonic + Len(MNEMONIC_PASSPHRASES)

VARIABLES
    script,                \* which script runs: "mp" or "st"
    MNEMONIC_WORDS,        \* configured word lists
    MNEMONIC_FIXED,        \* configured fixed mnemonic, <<>> when ""
    process_num,           \* configured PROCESS_NUM of the run
    ADDRESSES_TO_SEARCH,   \* configured target identifiers
    VERBOSE,               \* configured verbosity
    stop_processing,       \* multiprocessing.Value("B")
    mnemonic_queue,        \* items of the mnemonic JoinableQueue
    mnemonic_unfinished,   \* its unfinished-task count
    logger_queue,          \* items of the logger JoinableQueue
    logger_unfinished,     \* its unfinished-task count
    gen_pc, gen_indices,   \* generator process: position, product indices
    gen_closed,            \* generator called mnemonic_queue.close()
    chk_pc, chk_mnemonic,  \* checker processes: position, mnemonic in hand
    chk_msgs, chk_found,   \* messages still to put, result of the check
    log_pc, log_msg,       \* logger process: position, message in hand
    log_file,              \* records the logger has written to the file
    main_pc,               \* main process position
    pushed,                \* history: mnemonics put by the generator
    checks,                \* history: per checker, its checks, [mnemonic, found, derived]
    early_msgs,            \* history: messages put while stop_processing was false
    stop_writers,          \* history: processes that wrote stop_processing
    st_pc, st_indices,     \* single-flow find_mnemonic: position, indices
    st_checks,             \* history: its checks, [mnemonic, found, derived]
    st_log                 \* lines its logger has written, in order

config_vars == <<script, MNEMONIC_WORDS, MNEMONIC_FIXED, process_num,
                 ADDRESSES_TO_SEARCH, VERBOSE>>
queue_vars == <<mnemonic_queue, mnemonic_unfinished, logger_queue, logger_unfinished>>
gen_vars == <<gen_pc, gen_indices, gen_closed, pushed>>
chk_vars == <<chk_pc, chk_mnemonic, chk_msgs, chk_found, checks, early_msgs>>
log_vars == <<log_pc, log_msg, log_file>>
st_vars == <<st_pc, st_indices, st_checks, st_log>>
mp_vars == <<stop_processing, stop_writers, queue_vars, gen_vars, chk_vars,
             log_vars, main_pc>>
vars == <<config_vars, mp_vars, st_vars>>

(***************************************************************************)
(* Helpers on sequences.                                                   *)
(***************************************************************************)
RECURSIVE SeqProduct(_)
SeqProduct(s) == IF s = <<>> THEN 1 ELSE Head(s) * SeqProduct(Tail(s))

RECURSIVE SeqSum(_)
SeqSum(s) == IF s = <<>> THEN 0 ELSE Head(s) + SeqSum(Tail(s))

Range(s) == { s[i] : i \in DOMAIN s }

\* 1 with a fixed mnemonic, otherwise
\* functools.reduce(operator.mul, [len(words) for words in MNEMONIC_WORDS], 1)
get_total_mnemonic_combinations ==
    IF MNEMONIC_FIXED # <<>> THEN 1
    ELSE SeqProduct([i \in DOMAIN MNEMONIC_WORDS |-> Len(MNEMONIC_WORDS[i])])

get_total_addresses ==
    get_total_mnemonic_combinations * get_addresses_per_mnemonic

\* maxsize of the two JoinableQueues: check_all_mnemonics passes the
\* configured sizes, check_single_mnemonic passes none (0, no limit)
mnemonic_queue_maxsize ==
    IF MNEMONIC_FIXED # <<>> THEN 0 ELSE MNEMONIC_QUEUE_MAX_SIZE

logger_queue_maxsize ==
    IF MNEMONIC_FIXED # <<>> THEN 0 ELSE LOG_QUEUE_MAX_SIZE

\* Queue.full(): a maxsize of 0 or less means no limit
Full(q, maxsize) == maxsize > 0 /\ Len(q) >= maxsize

(***************************************************************************)
(* itertools.product over MNEMONIC_WORDS: an odometer over one index per   *)
(* word list, the rightmost index advancing first.                         *)
(***************************************************************************)
NoIndices == <<>>

FirstIndices ==
    IF \E i \in DOMAIN MNEMONIC_WORDS : Len(MNEMONIC_WORDS[i]) = 0
    THEN NoIndices
    ELSE [i \in DOMAIN MNEMONIC_WORDS |-> 1]

\* the rightmost position whose index can still advance, 0 when none
RECURSIVE Pivot(_, _)
Pivot(ind, i) ==
    IF i = 0 THEN 0
    ELSE IF ind[i] < Len(MNEMONIC_WORDS[i]) THEN i
    ELSE Pivot(ind, i - 1)

\* as NextIndices, but the leftmost index advances first
NextIndices_LeftFirst(ind) ==
    LET movable == { i \in DOMAIN ind : ind[i] < Len(MNEMONIC_WORDS[i]) }
        p == IF movable = {} THEN 0
             ELSE CHOOSE i \in movable : \A j \in movable : i <= j
    IN  IF p = 0 THEN NoIndices
        ELSE [i \in DOMAIN ind |->
                IF i > p THEN ind[i] ELSE IF i = p THEN ind[i] + 1 ELSE 1]

NextIndices(ind) ==
    LET p == Pivot(ind, Len(ind))
    IN  IF p = 0 THEN NoIndices
        ELSE [i \in DOMAIN ind |->
                IF i < p THEN ind[i] ELSE IF i = p THEN ind[i] + 1 ELSE 1]

\* Bip39Mnemonic.FromList(mnemonic)
MnemonicAt(ind) == [i \in DOMAIN ind |-> MNEMONIC_WORDS[i][ind[i]]]

(***************************************************************************)
(* External library: checksum decoding and address derivation.             *)
(***************************************************************************)
WordNum(w) == CASE w = "a" -> 1 [] w = "b" -> 2 [] OTHER -> 3

IndexOf(s, x) == CHOOSE i \in DOMAIN s : s[i] = x

\* Bip39MnemonicDecoder(...).Decode(mnemonic): the checksum carried by the
\* last word must agree with the words before it, else MnemonicChecksumError
DecodeOk(m) ==
    SeqSum([i \in DOMAIN m |-> WordNum(m[i])]) % 2 = 0

\* Bip39SeedGenerator(mnemonic).Generate(passphrase)
Bip39Seed(m, passphrase) ==
    SeqSum([i \in DOMAIN m |-> i * WordNum(m[i])])
      + (get_addresses_per_mnemonic \div Len(MNEMONIC_PASSPHRASES))
          * (IndexOf(MNEMONIC_PASSPHRASES, passphrase) - 1)

\* EncodeKey(FromSeedAndPath(seed, path).DerivePath(str(i)).PublicKey())
Bip32Address(m, passphrase, path, i) ==
    (Bip39Seed(m, passphrase)
       + (IndexOf(BIP32_DERIVATION_PATHS, path) - 1) * BIP32_ADDRESSES_NUM + i)
    % NumAddrs

\* Bip44.FromSeed(seed, coin).Purpose().Coin().Account(i).Change(c)
\*      .AddressIndex(j).PublicKey().ToAddress()
Bip44Address(m, passphrase, i, j) ==
    (Bip39Seed(m, passphrase)
       + Len(BIP32_DERIVATION_PATHS) * BIP32_ADDRESSES_NUM
       + i * BIP44_ADDRESSES_NUM + j)
    % NumAddrs

(***************************************************************************)
(* Parallel variant: derive_bip32_addresses, derive_bip44_addresses and    *)
(* check_mnemonic.  A result is [found, derived, msgs]: the return value,  *)
(* the identifiers derived in order, the messages put on the logger queue. *)
(***************************************************************************)
FoundMsg(scheme, addr, m, passphrase) ==
    [kind |-> "Found", scheme |-> scheme, addrs |-> <<addr>>,
     mnemonic |-> m, passphrase |-> passphrase]

VerboseMsg(scheme, addrs, m, passphrase) ==
    [kind |-> "Verbose", scheme |-> scheme, addrs |-> addrs,
     mnemonic |-> m, passphrase |-> passphrase]

\* log_verbose(msg, logger_queue): put only if VERBOSE
log_verbose(msg) == IF VERBOSE THEN <<msg>> ELSE <<>>

\* log(msg, logger_queue)
log(msg) == <<msg>>

\* for path in BIP32_DERIVATION_PATHS: for i in range(0, BIP32_ADDRESSES_NUM)
RECURSIVE Bip32Loop(_, _, _, _, _)
Bip32Loop(m, passphrase, p, i, derived) ==
    IF p > Len(BIP32_DERIVATION_PATHS)
    THEN [found |-> FALSE, derived |-> derived,
          msgs |-> log_verbose(VerboseMsg("bip32", derived, m, passphrase))]
    ELSE IF i >= BIP32_ADDRESSES_NUM
    THEN Bip32Loop(m, passphrase, p + 1, 0, derived)
    ELSE LET addr == Bip32Address(m, passphrase, BIP32_DERIVATION_PATHS[p], i)
         IN  IF addr \in ADDRESSES_TO_SEARCH
             THEN [found |-> TRUE, derived |-> Append(derived, addr),
                   msgs |-> log(FoundMsg("bip32", addr, m, passphrase))]
             ELSE Bip32Loop(m, passphrase, p, i + 1, Append(derived, addr))

derive_bip32_addresses(m, passphrase) ==
    IF ~BIP32_ENABLED
    THEN [found |-> FALSE, derived |-> <<>>, msgs |-> <<>>]
    ELSE Bip32Loop(m, passphrase, 1, 0, <<>>)

\* for i in range(0, BIP44_ACCOUNTS_NUM): for j in range(0, BIP44_ADDRESSES_NUM)
RECURSIVE Bip44Loop(_, _, _, _, _)
Bip44Loop(m, passphrase, i, j, derived) ==
    IF i >= BIP44_ACCOUNTS_NUM
    THEN [found |-> FALSE, derived |-> derived,
          msgs |-> log_verbose(VerboseMsg("bip44", derived, m, passphrase))]
    ELSE IF j >= BIP44_ADDRESSES_NUM
    THEN Bip44Loop(m, passphrase, i + 1, 0, derived)
    ELSE LET addr == Bip44Address(m, passphrase, i, j)
         IN  IF addr \in ADDRESSES_TO_SEARCH
             THEN [found |-> TRUE, derived |-> Append(derived, addr),
                   msgs |-> log(FoundMsg("bip44", addr, m, passphrase))]
             ELSE Bip44Loop(m, passphrase, i, j + 1, Append(derived, addr))

derive_bip44_addresses(m, passphrase) ==
    IF ~BIP44_ENABLED
    THEN [found |-> FALSE, derived |-> <<>>, msgs |-> <<>>]
    ELSE Bip44Loop(m, passphrase, 0, 0, <<>>)

\* as PassphraseLoop, but with the two schemes called in the other order
RECURSIVE PassphraseLoop_Bip44First(_, _, _, _)
PassphraseLoop_Bip44First(m, k, derived, msgs) ==
    IF k > Len(MNEMONIC_PASSPHRASES)
    THEN [found |-> FALSE, derived |-> derived, msgs |-> msgs]
    ELSE LET r32 == derive_bip32_addresses(m, MNEMONIC_PASSPHRASES[k])
             r44 == derive_bip44_addresses(m, MNEMONIC_PASSPHRASES[k])
         IN  IF r44.found
             THEN [found |-> TRUE, derived |-> derived \o r44.derived,
                   msgs |-> msgs \o r44.msgs]
             ELSE IF r32.found
             THEN [found |-> TRUE,
                   derived |-> derived \o r44.derived \o r32.derived,
                   msgs |-> msgs \o r44.msgs \o r32.msgs]
             ELSE PassphraseLoop_Bip44First(m, k + 1,
                                   derived \o r44.derived \o r32.derived,
                                   msgs \o r44.msgs \o r32.msgs)

\* for passphrase in MNEMONIC_PASSPHRASES: bip32, then bip44
RECURSIVE PassphraseLoop(_, _, _, _)
PassphraseLoop(m, k, derived, msgs) ==
    IF k > Len(MNEMONIC_PASSPHRASES)
    THEN [found |-> FALSE, derived |-> derived, msgs |-> msgs]
    ELSE LET r32 == derive_bip32_addresses(m, MNEMONIC_PASSPHRASES[k])
             r44 == derive_bip44_addresses(m, MNEMONIC_PASSPHRASES[k])
         IN  IF r32.found
             THEN [found |-> TRUE, derived |-> derived \o r32.derived,
                   msgs |-> msgs \o r32.msgs]
             ELSE IF r44.found
             THEN [found |-> TRUE,
                   derived |-> derived \o r32.derived \o r44.derived,
                   msgs |-> msgs \o r32.msgs \o r44.msgs]
             ELSE PassphraseLoop(m, k + 1,
                                 derived \o r32.derived \o r44.derived,
                                 msgs \o r32.msgs \o r44.msgs)

\* as check_mnemonic, but a checksum error does not end the check
check_mnemonic_IgnoresChecksum(m) ==
    PassphraseLoop(m, 1, <<>>, <<>>)

check_mnemonic(m) ==
    IF ~DecodeOk(m)
    THEN [found |-> FALSE, derived |-> <<>>, msgs |-> <<>>]
    ELSE PassphraseLoop(m, 1, <<>>, <<>>)

(***************************************************************************)
(* Single-flow variant: the same three functions, logging line by line     *)
(* through the logging module (debug lines pass only when VERBOSE).        *)
(***************************************************************************)
Line(kind, scheme, addrs, m, passphrase) ==
    [kind |-> kind, scheme |-> scheme, addrs |-> addrs,
     mnemonic |-> m, passphrase |-> passphrase]

\* logging.debug(msg), the root logger at DEBUG if VERBOSE else INFO
log_verbose_st(line) == IF VERBOSE THEN <<line>> ELSE <<>>

\* logging.info(msg)
log_st(line) == <<line>>

RECURSIVE StBip32Loop(_, _, _, _, _, _)
StBip32Loop(m, passphrase, p, i, derived, lines) ==
    IF p > Len(BIP32_DERIVATION_PATHS)
    THEN [found |-> FALSE, derived |-> derived, msgs |-> lines]
    ELSE LET ls0 == IF i = 0
                    THEN lines \o log_verbose_st(
                             Line("Path", "bip32", <<>>, m, passphrase))
                    ELSE lines
         IN  IF i >= BIP32_ADDRESSES_NUM
             THEN StBip32Loop(m, passphrase, p + 1, 0, derived, ls0)
             ELSE LET addr == Bip32Address(m, passphrase,
                                           BIP32_DERIVATION_PATHS[p], i)
                      ls == ls0 \o log_verbose_st(
                                Line("Address", "bip32", <<addr>>, m, passphrase))
                  IN  IF addr \in ADDRESSES_TO_SEARCH
                      THEN [found |-> TRUE, derived |-> Append(derived, addr),
                            msgs |-> ls \o log_st(
                                Line("Found", "bip32", <<addr>>, m, passphrase))]
                      ELSE StBip32Loop(m, passphrase, p, i + 1,
                                       Append(derived, addr), ls)

derive_bip32_addresses_st(m, passphrase) ==
    IF ~BIP32_ENABLED
    THEN [found |-> FALSE, derived |-> <<>>, msgs |-> <<>>]
    ELSE StBip32Loop(m, passphrase, 1, 0, <<>>,
                     log_verbose_st(Line("Mnemonic", "bip32", <<>>, m, passphrase)))

RECURSIVE StBip44Loop(_, _, _, _, _, _)
StBip44Loop(m, passphrase, i, j, derived, lines) ==
    IF i >= BIP44_ACCOUNTS_NUM
    THEN [found |-> FALSE, derived |-> derived, msgs |-> lines]
    ELSE LET ls0 == IF j = 0
                    THEN lines \o log_verbose_st(
                             Line("Account", "bip44", <<>>, m, passphrase))
                    ELSE lines
         IN  IF j >= BIP44_ADDRESSES_NUM
             THEN StBip44Loop(m, passphrase, i + 1, 0, derived, ls0)
             ELSE LET addr == Bip44Address(m, passphrase, i, j)
                      ls == ls0 \o log_verbose_st(
                                Line("Address", "bip44", <<addr>>, m, passphrase))
                  IN  IF addr \in ADDRESSES_TO_SEARCH
                      THEN [found |-> TRUE, derived |-> Append(derived, addr),
                            msgs |-> ls \o log_st(
                                Line("Found", "bip44", <<addr>>, m, passphrase))]
                      ELSE StBip44Loop(m, passphrase, i, j + 1,
                                       Append(derived, addr), ls)

derive_bip44_addresses_st(m, passphrase) ==
    IF ~BIP44_ENABLED
    THEN [found |-> FALSE, derived |-> <<>>, msgs |-> <<>>]
    ELSE StBip44Loop(m, passphrase, 0, 0, <<>>,
                     log_verbose_st(Line("Mnemonic", "bip44", <<>>, m, passphrase)))

RECURSIVE StPassphraseLoop(_, _, _, _)
StPassphraseLoop(m, k, derived, msgs) ==
    IF k > Len(MNEMONIC_PASSPHRASES)
    THEN [found |-> FALSE, derived |-> derived, msgs |-> msgs]
    ELSE LET r32 == derive_bip32_addresses_st(m, MNEMONIC_PASSPHRASES[k])
             r44 == derive_bip44_addresses_st(m, MNEMONIC_PASSPHRASES[k])
         IN  IF r32.found
             THEN [found |-> TRUE, derived |-> derived \o r32.derived,
                   msgs |-> msgs \o r32.msgs]
             ELSE IF r44.found
             THEN [found |-> TRUE,
                   derived |-> derived \o r32.derived \o r44.derived,
                   msgs |-> msgs \o r32.msgs \o r44.msgs]
             ELSE StPassphraseLoop(m, k + 1,
                                   derived \o r32.derived \o r44.derived,
                                   msgs \o r32.msgs \o r44.msgs)

check_mnemonic_st(m) ==
    IF ~DecodeOk(m)
    THEN [found |-> FALSE, derived |-> <<>>, msgs |-> <<>>]
    ELSE StPassphraseLoop(m, 1, <<>>, <<>>)

(***************************************************************************)
(* Initial state: the script is about to run main(); no process has been   *)
(* started.                                                                *)
(***************************************************************************)
\* the main process, in stop_writers, beside the checkers 1..PROCESS_NUM
Main == PROCESS_NUM + 1

\* the checker processes that have been started
mnemonic_check_processes == { w \in Procs : chk_pc[w] # "not_started" }

AllIndices(words) ==
    { ind \in [DOMAIN words -> 1..2] :
        \A i \in DOMAIN words : ind[i] <= Len(words[i]) }

Mnemonics(words) ==
    { [i \in DOMAIN words |-> words[i][ind[i]]] : ind \in AllIndices(words) }

\* ADDRESSES_TO_SEARCH is empty or, as in the scripts, a pair of
\* neighbouring identifiers
TargetSets == {{}} \cup { {t, (t + 1) % NumAddrs} : t \in 0..(NumAddrs - 1) }

Init ==
    /\ script \in {"mp", "st"}
    /\ MNEMONIC_WORDS \in WordConfigs
    /\ MNEMONIC_FIXED \in FixedConfigs
    /\ process_num \in 0..PROCESS_NUM
    /\ ADDRESSES_TO_SEARCH \in TargetSets
    /\ VERBOSE \in BOOLEAN
    /\ stop_processing = FALSE
    /\ stop_writers = {}
    /\ mnemonic_queue = <<>>
    /\ mnemonic_unfinished = 0
    /\ logger_queue = <<>>
    /\ logger_unfinished = 0
    /\ gen_pc = "not_started"
    /\ gen_indices = FirstIndices
    /\ gen_closed = FALSE
    /\ pushed = <<>>
    /\ chk_pc = [w \in Procs |-> "not_started"]
    /\ chk_mnemonic = [w \in Procs |-> <<>>]
    /\ chk_msgs = [w \in Procs |-> <<>>]
    /\ chk_found = [w \in Procs |-> FALSE]
    /\ checks = [w \in Procs |-> <<>>]
    /\ early_msgs = {}
    /\ log_pc = "not_started"
    /\ log_msg = <<>>
    /\ log_file = {}
    /\ main_pc = "main"
    /\ st_pc = "main"
    /\ st_indices = FirstIndices
    /\ st_checks = <<>>
    /\ st_log = <<>>

(***************************************************************************)
(* mnemonic_generator_process_fct                                          *)
(***************************************************************************)
\* as GenIter, but the flag is tested after the put instead of before it:
\* the element in hand is still put when the flag is seen set
GenIter_PutsThenTests ==
    /\ script = "mp"
    /\ gen_pc = "iter"
    /\ IF gen_indices = NoIndices
       THEN /\ gen_closed' = TRUE
            /\ gen_pc' = "exited"
            /\ UNCHANGED <<mnemonic_queue, mnemonic_unfinished, pushed>>
       ELSE IF stop_processing
       THEN /\ mnemonic_queue' = Append(mnemonic_queue, MnemonicAt(gen_indices))
            /\ mnemonic_unfinished' = mnemonic_unfinished + 1
            /\ pushed' = Append(pushed, MnemonicAt(gen_indices))
            /\ gen_closed' = TRUE
            /\ gen_pc' = "exited"
       ELSE /\ gen_pc' = "put"
            /\ UNCHANGED <<gen_closed, mnemonic_queue, mnemonic_unfinished,
                           pushed>>
    /\ UNCHANGED <<config_vars, st_vars, stop_processing, stop_writers,
                   logger_queue, logger_unfinished, gen_indices, chk_vars,
                   log_vars, main_pc>>

\* one turn of the for loop: take the next product element, test the flag;
\* when the loop ends, close the queue and exit
GenIter ==
    /\ script = "mp"
    /\ gen_pc = "iter"
    /\ IF gen_indices = NoIndices \/ stop_processing
       THEN /\ gen_closed' = TRUE
            /\ gen_pc' = "exited"
       ELSE /\ gen_pc' = "put"
            /\ UNCHANGED gen_closed
    /\ UNCHANGED <<config_vars, st_vars, stop_processing, stop_writers,
                   queue_vars,
                   gen_indices, pushed, chk_vars, log_vars, main_pc>>

\* mnemonic_queue.put(...): blocks while the queue is full
GenPut ==
    /\ script = "mp"
    /\ gen_pc = "put"
    /\ ~Full(mnemonic_queue, mnemonic_queue_maxsize)
    /\ mnemonic_queue' = Append(mnemonic_queue, MnemonicAt(gen_indices))
    /\ mnemonic_unfinished' = mnemonic_unfinished + 1
    /\ pushed' = Append(pushed, MnemonicAt(gen_indices))
    /\ gen_indices' = NextIndices(gen_indices)
    /\ gen_pc' = "iter"
    /\ UNCHANGED <<config_vars, st_vars, stop_processing, stop_writers,
                   logger_queue,
                   logger_unfinished, gen_closed, chk_vars, log_vars, main_pc>>

(***************************************************************************)
(* mnemonic_checker_process_fct                                            *)
(***************************************************************************)
\* while not stop_processing.value
ChkLoop(w) ==
    /\ script = "mp"
    /\ chk_pc[w] = "loop"
    /\ chk_pc' = [chk_pc EXCEPT ![w] = IF stop_processing THEN "exited" ELSE "get"]
    /\ UNCHANGED <<config_vars, st_vars, stop_processing, stop_writers,
                   queue_vars,
                   gen_vars, chk_mnemonic, chk_msgs, chk_found, checks,
                   early_msgs, log_vars, main_pc>>

\* as ChkGet, but queue.Empty is not caught: the exception ends the worker
ChkGet_EmptyEndsWorker(w) ==
    /\ script = "mp"
    /\ chk_pc[w] = "get"
    /\ IF mnemonic_queue # <<>>
       THEN LET m == Head(mnemonic_queue)
                r == check_mnemonic(m)
            IN  /\ mnemonic_queue' = Tail(mnemonic_queue)
                /\ chk_mnemonic' = [chk_mnemonic EXCEPT ![w] = m]
                /\ chk_msgs' = [chk_msgs EXCEPT ![w] = r.msgs]
                /\ chk_found' = [chk_found EXCEPT ![w] = r.found]
                /\ checks' = [checks EXCEPT ![w] = Append(@,
                       [mnemonic |-> m, found |-> r.found, derived |-> r.derived,
                        late |-> stop_processing])]
                /\ chk_pc' = [chk_pc EXCEPT ![w] = "check"]
       ELSE /\ chk_pc' = [chk_pc EXCEPT ![w] = "exited"]
            /\ UNCHANGED <<mnemonic_queue, chk_mnemonic, chk_msgs, chk_found,
                           checks>>
    /\ UNCHANGED <<config_vars, st_vars, stop_processing, stop_writers,
                   mnemonic_unfinished, logger_queue, logger_unfinished,
                   gen_vars, early_msgs, log_vars, main_pc>>

\* mnemonic_queue.get(timeout=1), then check_mnemonic starts on the item;
\* on queue.Empty the loop goes round
ChkGet(w) ==
    /\ script = "mp"
    /\ chk_pc[w] = "get"
    /\ IF mnemonic_queue # <<>>
       THEN LET m == Head(mnemonic_queue)
                r == check_mnemonic(m)
            IN  /\ mnemonic_queue' = Tail(mnemonic_queue)
                /\ chk_mnemonic' = [chk_mnemonic EXCEPT ![w] = m]
                /\ chk_msgs' = [chk_msgs EXCEPT ![w] = r.msgs]
                /\ chk_found' = [chk_found EXCEPT ![w] = r.found]
                /\ checks' = [checks EXCEPT ![w] = Append(@,
                       [mnemonic |-> m, found |-> r.found, derived |-> r.derived,
                        late |-> stop_processing])]
                /\ chk_pc' = [chk_pc EXCEPT ![w] = "check"]
       ELSE /\ chk_pc' = [chk_pc EXCEPT ![w] = "loop"]
            /\ UNCHANGED <<mnemonic_queue, chk_mnemonic, chk_msgs, chk_found,
                           checks>>
    /\ UNCHANGED <<config_vars, st_vars, stop_processing, stop_writers,
                   mnemonic_unfinished, logger_queue, logger_unfinished,
                   gen_vars, early_msgs, log_vars, main_pc>>

\* a logger_queue.put(msg) inside check_mnemonic: blocks while the queue is full
ChkLog(w) ==
    /\ script = "mp"
    /\ chk_pc[w] = "check"
    /\ chk_msgs[w] # <<>>
    /\ ~Full(logger_queue, logger_queue_maxsize)
    /\ logger_queue' = Append(logger_queue, Head(chk_msgs[w]))
    /\ logger_unfinished' = logger_unfinished + 1
    /\ chk_msgs' = [chk_msgs EXCEPT ![w] = Tail(@)]
    /\ early_msgs' = IF stop_processing THEN early_msgs
                     ELSE early_msgs \cup {Head(chk_msgs[w])}
    /\ UNCHANGED <<config_vars, st_vars, stop_processing, stop_writers,
                   mnemonic_queue,
                   mnemonic_unfinished, gen_vars, chk_pc, chk_mnemonic,
                   chk_found, checks, log_vars, main_pc>>

\* as ChkResult, but a miss is not acknowledged with task_done()
ChkResult_NoTaskDone(w) ==
    /\ script = "mp"
    /\ chk_pc[w] = "check"
    /\ chk_msgs[w] = <<>>
    /\ IF chk_found[w]
       THEN /\ stop_processing' = TRUE
            /\ stop_writers' = stop_writers \cup {w}
            /\ chk_pc' = [chk_pc EXCEPT ![w] = "exited"]
       ELSE /\ chk_pc' = [chk_pc EXCEPT ![w] = "loop"]
            /\ UNCHANGED <<stop_processing, stop_writers>>
    /\ UNCHANGED <<config_vars, st_vars, mnemonic_queue, mnemonic_unfinished,
                   logger_queue, logger_unfinished, gen_vars, chk_mnemonic,
                   chk_msgs, chk_found, checks, early_msgs, log_vars, main_pc>>

\* as ChkResult, but the flag is assigned the result of every check
\* (stop_processing.value = check_mnemonic(...)), so a miss writes False
ChkResult_AssignsResult(w) ==
    /\ script = "mp"
    /\ chk_pc[w] = "check"
    /\ chk_msgs[w] = <<>>
    /\ stop_processing' = chk_found[w]
    /\ stop_writers' = stop_writers \cup {w}
    /\ IF chk_found[w]
       THEN /\ chk_pc' = [chk_pc EXCEPT ![w] = "exited"]
            /\ UNCHANGED mnemonic_unfinished
       ELSE /\ mnemonic_unfinished' = mnemonic_unfinished - 1
            /\ chk_pc' = [chk_pc EXCEPT ![w] = "loop"]
    /\ UNCHANGED <<config_vars, st_vars, mnemonic_queue, logger_queue,
                   logger_unfinished, gen_vars, chk_mnemonic, chk_msgs,
                   chk_found, checks, early_msgs, log_vars, main_pc>>

\* as ChkResult, but after a miss the worker polls the queue again without
\* testing the flag
ChkResult_SkipsFlagTest(w) ==
    /\ script = "mp"
    /\ chk_pc[w] = "check"
    /\ chk_msgs[w] = <<>>
    /\ IF chk_found[w]
       THEN /\ stop_processing' = TRUE
            /\ stop_writers' = stop_writers \cup {w}
            /\ chk_pc' = [chk_pc EXCEPT ![w] = "exited"]
            /\ UNCHANGED mnemonic_unfinished
       ELSE /\ mnemonic_unfinished' = mnemonic_unfinished - 1
            /\ chk_pc' = [chk_pc EXCEPT ![w] = "get"]
            /\ UNCHANGED <<stop_processing, stop_writers>>
    /\ UNCHANGED <<config_vars, st_vars, mnemonic_queue, logger_queue,
                   logger_unfinished, gen_vars, chk_mnemonic, chk_msgs,
                   chk_found, checks, early_msgs, log_vars, main_pc>>

\* as ChkResult, but a match sets the flag and ends the worker before the
\* messages of the check are put on the logger queue
ChkResult_StopsBeforeLogging(w) ==
    /\ script = "mp"
    /\ chk_pc[w] = "check"
    /\ chk_found[w] \/ chk_msgs[w] = <<>>
    /\ IF chk_found[w]
       THEN /\ stop_processing' = TRUE
            /\ stop_writers' = stop_writers \cup {w}
            /\ chk_pc' = [chk_pc EXCEPT ![w] = "exited"]
            /\ UNCHANGED mnemonic_unfinished
       ELSE /\ mnemonic_unfinished' = mnemonic_unfinished - 1
            /\ chk_pc' = [chk_pc EXCEPT ![w] = "loop"]
            /\ UNCHANGED <<stop_processing, stop_writers>>
    /\ UNCHANGED <<config_vars, st_vars, mnemonic_queue, logger_queue,
                   logger_unfinished, gen_vars, chk_mnemonic, chk_msgs,
                   chk_found, checks, early_msgs, log_vars, main_pc>>

\* check_mnemonic returned: on True set the flag and break, otherwise
\* mnemonic_queue.task_done()
ChkResult(w) ==
    /\ script = "mp"
    /\ chk_pc[w] = "check"
    /\ chk_msgs[w] = <<>>
    /\ IF chk_found[w]
       THEN /\ stop_processing' = TRUE
            /\ stop_writers' = stop_writers \cup {w}
            /\ chk_pc' = [chk_pc EXCEPT ![w] = "exited"]
            /\ UNCHANGED mnemonic_unfinished
       ELSE /\ mnemonic_unfinished' = mnemonic_unfinished - 1
            /\ chk_pc' = [chk_pc EXCEPT ![w] = "loop"]
            /\ UNCHANGED <<stop_processing, stop_writers>>
    /\ UNCHANGED <<config_vars, st_vars, mnemonic_queue, logger_queue,
                   logger_unfinished, gen_vars, chk_mnemonic, chk_msgs,
                   chk_found, checks, early_msgs, log_vars, main_pc>>

(***************************************************************************)
(* logger_process_fct                                                      *)
(***************************************************************************)
\* while not stop_processing.value
LogLoop ==
    /\ script = "mp"
    /\ log_pc = "loop"
    /\ log_pc' = IF stop_processing THEN "exited" ELSE "get"
    /\ UNCHANGED <<config_vars, st_vars, stop_processing, stop_writers,
                   queue_vars,
                   gen_vars, chk_vars, log_msg, log_file, main_pc>>

\* as LogGet, but the get returns the newest message of the queue
LogGet_TakesNewest ==
    /\ script = "mp"
    /\ log_pc = "get"
    /\ IF logger_queue # <<>>
       THEN /\ logger_queue' = SubSeq(logger_queue, 1, Len(logger_queue) - 1)
            /\ log_msg' = logger_queue[Len(logger_queue)]
            /\ log_file' = log_file \cup {logger_queue[Len(logger_queue)]}
            /\ log_pc' = "task_done"
       ELSE /\ log_pc' = "loop"
            /\ UNCHANGED <<logger_queue, log_msg, log_file>>
    /\ UNCHANGED <<config_vars, st_vars, stop_processing, stop_writers,
                   mnemonic_queue,
                   mnemonic_unfinished, logger_unfinished, gen_vars, chk_vars,
                   main_pc>>

\* logger_queue.get(timeout=1) and logger.info(msg); on queue.Empty the
\* loop goes round
LogGet ==
    /\ script = "mp"
    /\ log_pc = "get"
    /\ IF logger_queue # <<>>
       THEN /\ logger_queue' = Tail(logger_queue)
            /\ log_msg' = Head(logger_queue)
            /\ log_file' = log_file \cup {Head(logger_queue)}
            /\ log_pc' = "task_done"
       ELSE /\ log_pc' = "loop"
            /\ UNCHANGED <<logger_queue, log_msg, log_file>>
    /\ UNCHANGED <<config_vars, st_vars, stop_processing, stop_writers,
                   mnemonic_queue,
                   mnemonic_unfinished, logger_unfinished, gen_vars, chk_vars,
                   main_pc>>

\* logger_queue.task_done()
LogTaskDone ==
    /\ script = "mp"
    /\ log_pc = "task_done"
    /\ logger_unfinished' = logger_unfinished - 1
    /\ log_pc' = "loop"
    /\ UNCHANGED <<config_vars, st_vars, stop_processing, stop_writers,
                   mnemonic_queue,
                   mnemonic_unfinished, logger_queue, gen_vars, chk_vars,
                   log_msg, log_file, main_pc>>

(***************************************************************************)
(* main, check_single_mnemonic and check_all_mnemonics                     *)
(***************************************************************************)
\* main() up to the first join: it returns when there is no address to
\* check; with a fixed mnemonic check_single_mnemonic puts it on an
\* unbounded queue and starts the logger and one checker; otherwise
\* check_all_mnemonics starts the logger, the generator and PROCESS_NUM
\* checkers
MainStart ==
    /\ script = "mp"
    /\ main_pc = "main"
    /\ IF get_total_addresses = 0
       THEN /\ main_pc' = "returned"
            /\ UNCHANGED <<mnemonic_queue, mnemonic_unfinished, gen_pc,
                           chk_pc, log_pc>>
       ELSE IF MNEMONIC_FIXED # <<>>
       THEN /\ mnemonic_queue' = Append(mnemonic_queue, MNEMONIC_FIXED)
            /\ mnemonic_unfinished' = mnemonic_unfinished + 1
            /\ log_pc' = "loop"
            /\ chk_pc' = [chk_pc EXCEPT ![1] = "loop"]
            /\ main_pc' = "join_mnemonic_queue"
            /\ UNCHANGED gen_pc
       ELSE /\ log_pc' = "loop"
            /\ gen_pc' = "iter"
            /\ chk_pc' = [w \in Procs |->
                             IF w <= process_num THEN "loop" ELSE "not_started"]
            /\ main_pc' = "join_gen"
            /\ UNCHANGED <<mnemonic_queue, mnemonic_unfinished>>
    /\ UNCHANGED <<config_vars, st_vars, stop_processing, stop_writers,
                   logger_queue, logger_unfinished, gen_indices, gen_closed,
                   pushed, chk_mnemonic, chk_msgs, chk_found, checks,
                   early_msgs, log_msg, log_file>>

\* mnemonic_gen_process.join()
MainJoinGen ==
    /\ script = "mp"
    /\ main_pc = "join_gen"
    /\ gen_pc = "exited"
    /\ main_pc' = "join_mnemonic_queue"
    /\ UNCHANGED <<config_vars, st_vars, stop_processing, stop_writers,
                   queue_vars,
                   gen_vars, chk_vars, log_vars>>

\* as MainJoinMnemonicQueue, but without waiting for the unfinished tasks
MainJoinMnemonicQueue_NoWait ==
    /\ script = "mp"
    /\ main_pc = "join_mnemonic_queue"
    /\ main_pc' = "join_logger_queue"
    /\ UNCHANGED <<config_vars, st_vars, stop_processing, stop_writers,
                   queue_vars, gen_vars, chk_vars, log_vars>>

\* mnemonic_queue.join()
MainJoinMnemonicQueue ==
    /\ script = "mp"
    /\ main_pc = "join_mnemonic_queue"
    /\ mnemonic_unfinished = 0
    /\ main_pc' = "join_logger_queue"
    /\ UNCHANGED <<config_vars, st_vars, stop_processing, stop_writers,
                   queue_vars,
                   gen_vars, chk_vars, log_vars>>

\* as MainJoinLoggerQueue, but without waiting for the unfinished messages
MainJoinLoggerQueue_NoWait ==
    /\ script = "mp"
    /\ main_pc = "join_logger_queue"
    /\ main_pc' = "set_stop"
    /\ UNCHANGED <<config_vars, st_vars, stop_processing, stop_writers,
                   queue_vars, gen_vars, chk_vars, log_vars>>

\* logger_queue.join()
MainJoinLoggerQueue ==
    /\ script = "mp"
    /\ main_pc = "join_logger_queue"
    /\ logger_unfinished = 0
    /\ main_pc' = "set_stop"
    /\ UNCHANGED <<config_vars, st_vars, stop_processing, stop_writers,
                   queue_vars,
                   gen_vars, chk_vars, log_vars>>

\* stop_processing.value = True
MainSetStop ==
    /\ script = "mp"
    /\ main_pc = "set_stop"
    /\ stop_processing' = TRUE
    /\ stop_writers' = stop_writers \cup {Main}
    /\ main_pc' = "join_checkers"
    /\ UNCHANGED <<config_vars, st_vars, queue_vars, gen_vars, chk_vars, log_vars>>

\* for mnemonic_check_process in mnemonic_check_processes: join()
MainJoinCheckers ==
    /\ script = "mp"
    /\ main_pc = "join_checkers"
    /\ \A w \in mnemonic_check_processes : chk_pc[w] = "exited"
    /\ main_pc' = "join_logger"
    /\ UNCHANGED <<config_vars, st_vars, stop_processing, stop_writers,
                   queue_vars,
                   gen_vars, chk_vars, log_vars>>

\* logger_process.join(), then main prints the elapsed time
MainJoinLogger ==
    /\ script = "mp"
    /\ main_pc = "join_logger"
    /\ log_pc = "exited"
    /\ main_pc' = "done"
    /\ UNCHANGED <<config_vars, st_vars, stop_processing, stop_writers,
                   queue_vars,
                   gen_vars, chk_vars, log_vars>>

(***************************************************************************)
(* main and find_mnemonic of the single-flow script                        *)
(***************************************************************************)
\* main() up to the search: it returns when there is no address to check
StMain ==
    /\ script = "st"
    /\ st_pc = "main"
    /\ st_pc' = IF get_total_addresses = 0 THEN "returned"
                ELSE IF MNEMONIC_FIXED # <<>> THEN "fixed"
                ELSE "loop"
    /\ UNCHANGED <<config_vars, mp_vars, st_indices, st_checks, st_log>>

\* check_mnemonic(Bip39Mnemonic.FromString(MNEMONIC_FIXED))
StCheckFixed ==
    /\ script = "st"
    /\ st_pc = "fixed"
    /\ LET r == check_mnemonic_st(MNEMONIC_FIXED)
       IN  /\ st_checks' = Append(st_checks,
                  [mnemonic |-> MNEMONIC_FIXED, found |-> r.found,
                   derived |-> r.derived])
           /\ st_log' = st_log \o r.msgs
    /\ st_pc' = "done"
    /\ UNCHANGED <<config_vars, mp_vars, st_indices>>

\* as StIter, but the loop goes on after a match instead of returning
StIter_ContinuesAfterMatch ==
    /\ script = "st"
    /\ st_pc = "loop"
    /\ IF st_indices = NoIndices
       THEN /\ st_pc' = "done"
            /\ UNCHANGED <<st_indices, st_checks, st_log>>
       ELSE LET m == MnemonicAt(st_indices)
                r == check_mnemonic_st(m)
            IN  /\ st_checks' = Append(st_checks,
                       [mnemonic |-> m, found |-> r.found, derived |-> r.derived])
                /\ st_log' = st_log \o r.msgs
                /\ st_pc' = "loop"
                /\ st_indices' = NextIndices(st_indices)
    /\ UNCHANGED <<config_vars, mp_vars>>

\* one turn of the for loop: take the next product element, check it,
\* return on a match; the function returns when the product is exhausted
StIter ==
    /\ script = "st"
    /\ st_pc = "loop"
    /\ IF st_indices = NoIndices
       THEN /\ st_pc' = "done"
            /\ UNCHANGED <<st_indices, st_checks, st_log>>
       ELSE LET m == MnemonicAt(st_indices)
                r == check_mnemonic_st(m)
            IN  /\ st_checks' = Append(st_checks,
                       [mnemonic |-> m, found |-> r.found, derived |-> r.derived])
                /\ st_log' = st_log \o r.msgs
                /\ st_pc' = IF r.found THEN "done" ELSE "loop"
                /\ st_indices' = IF r.found THEN st_indices
                                 ELSE NextIndices(st_indices)
    /\ UNCHANGED <<config_vars, mp_vars>>

\* find_mnemonic as a function of the configuration: the mnemonics it
\* checks, in order, and the lines it logs, from product indices ind on
RECURSIVE find_mnemonic(_, _, _)
find_mnemonic(ind, checked, lines) ==
    IF ind = NoIndices
    THEN [checked |-> checked, lines |-> lines, found |-> FALSE]
    ELSE LET m == MnemonicAt(ind)
             r == check_mnemonic_st(m)
         IN  IF r.found
             THEN [checked |-> Append(checked, m), lines |-> lines \o r.msgs,
                   found |-> TRUE]
             ELSE find_mnemonic(NextIndices(ind), Append(checked, m),
                                lines \o r.msgs)

Generator == GenIter \/ GenPut
Checker(w) == ChkLoop(w) \/ ChkGet(w) \/ ChkLog(w) \/ ChkResult(w)
Logger == LogLoop \/ LogGet \/ LogTaskDone
MainProcess ==
    \/ MainStart
    \/ MainJoinGen \/ MainJoinMnemonicQueue \/ MainJoinLoggerQueue
    \/ MainSetStop \/ MainJoinCheckers \/ MainJoinLogger
SingleFlow == StMain \/ StCheckFixed \/ StIter

Next ==
    \/ Generator
    \/ \E w \in Procs : Checker(w)
    \/ Logger
    \/ MainProcess
    \/ SingleFlow

Spec == Init /\ [][Next]_vars

\* Every process runs whenever it can take a step (each is an operating
\* system process of its own).
Fairness ==
    /\ WF_vars(Generator)
    /\ \A w \in Procs : WF_vars(Checker(w))
    /\ WF_vars(Logger)
    /\ WF_vars(MainProcess)
    /\ WF_vars(SingleFlow)

FairSpec == Init /\ [][Next]_vars /\ Fairness

(***************************************************************************)
(* Operator interrupt (KeyboardInterrupt in the main process).             *)
(***************************************************************************)
\* The parallel script calls main() without any handler: the exception ends
\* the main process wherever it is, stop_processing is not written.  The
\* signal reaches the main process alone, or the whole process group, in
\* which case every running child ends on its own KeyboardInterrupt.
InterruptMp ==
    /\ script = "mp"
    /\ main_pc \notin {"done", "returned", "interrupted"}
    /\ main_pc' = "interrupted"
    /\ \E group \in BOOLEAN :
          LET Hit(pc) == IF group /\ pc \notin {"not_started", "exited"}
                         THEN "interrupted" ELSE pc
          IN  /\ gen_pc' = Hit(gen_pc)
              /\ log_pc' = Hit(log_pc)
              /\ chk_pc' = [w \in Procs |-> Hit(chk_pc[w])]
    /\ UNCHANGED <<config_vars, st_vars, stop_processing, stop_writers,
                   queue_vars, gen_indices, gen_closed, pushed, chk_mnemonic,
                   chk_msgs, chk_found, checks, early_msgs, log_msg, log_file>>

\* The single-flow script catches KeyboardInterrupt around main() and
\* prints "Exiting..."
InterruptSt ==
    /\ script = "st"
    /\ st_pc \notin {"done", "returned", "interrupted"}
    /\ st_pc' = "interrupted"
    /\ UNCHANGED <<config_vars, mp_vars, st_indices, st_checks, st_log>>

Interrupt == InterruptMp \/ InterruptSt

NextInterrupt == Next \/ Interrupt

\* the runs in which the operator may interrupt the script at any point
InterruptSpec == Init /\ [][NextInterrupt]_vars

(***************************************************************************)
(* Properties                                                              *)
(***************************************************************************)

\* C6: stop_processing is false when the processes are created, and no step
\* of any process takes it from true back to false: it rises at most once,
\* and stays true however many checkers (and main) write it.
C6_StopFlagMonotonic ==
    /\ stop_processing = FALSE
    /\ [][stop_processing => stop_processing']_vars

\* two checkers have both written the flag, and it is true
C6_Witness ==
    /\ stop_processing
    /\ Cardinality(stop_writers \cap Procs) >= 2

\* The cartesian product of the word lists in lexicographic order, in closed
\* form: element k holds at position i the word of list i numbered by the
\* i-th digit of k - 1 written in the mixed radix of the list lengths.
SuffixSize(words, i) ==
    SeqProduct([j \in 1..(Len(words) - i) |-> Len(words[i + j])])

LexProduct(words) ==
    [k \in 1..SeqProduct([i \in DOMAIN words |-> Len(words[i])]) |->
        [i \in DOMAIN words |->
            words[i][(((k - 1) \div SuffixSize(words, i)) % Len(words[i])) + 1]]]

IsPrefix(s, t) == Len(s) <= Len(t) /\ s = SubSeq(t, 1, Len(s))

NoRepeats(s) == \A i, j \in DOMAIN s : s[i] = s[j] => i = j

StMnemonics == [k \in DOMAIN st_checks |-> st_checks[k].mnemonic]

\* C7: what the generator has put on the mnemonic queue is always an initial
\* part of the lexicographic product of the word lists, and when its loop
\* ends because the product is exhausted it has put the whole product: as
\* many mnemonics as the product of the list lengths, position i a word of
\* list i, none repeated.  The single-flow loop walks the same sequence
\* (with a fixed mnemonic configured neither enumerates anything).
C7_GeneratorEnumeratesProduct ==
    LET P == LexProduct(MNEMONIC_WORDS)
        Whole(s) ==
            /\ s = P
            /\ Len(s) = get_total_mnemonic_combinations
            /\ NoRepeats(s)
            /\ \A k \in DOMAIN s : \A i \in DOMAIN MNEMONIC_WORDS :
                  s[k][i] \in Range(MNEMONIC_WORDS[i])
    IN  /\ IsPrefix(pushed, P)
        /\ (gen_pc = "exited" /\ gen_indices = NoIndices) => Whole(pushed)
        /\ MNEMONIC_FIXED # <<>> => pushed = <<>>
        /\ MNEMONIC_FIXED = <<>> => IsPrefix(StMnemonics, P)
        /\ (/\ MNEMONIC_FIXED = <<>>
            /\ st_pc = "done"
            /\ \A k \in DOMAIN st_checks : ~st_checks[k].found)
              => Whole(StMnemonics)

\* the generator has put a whole product of two lists of two words
C7_Witness ==
    /\ script = "mp"
    /\ gen_pc = "exited"
    /\ gen_indices = NoIndices
    /\ Len(pushed) = 4
    /\ pushed[1][1] = pushed[2][1]
    /\ pushed[1][2] # pushed[2][2]

\* C8 as stated: once the flag is set while the generator is still running,
\* the generator ends short of the full product, so no put made with the
\* flag set completes the product.
C8_SetFlagCutsProductShort ==
    [][(stop_processing /\ pushed' # pushed)
          => Len(pushed') < get_total_mnemonic_combinations]_vars

\* C8, amended: a generator that leaves its loop with product elements still
\* to come does so because it saw the flag set; it has then put strictly
\* fewer mnemonics than the product holds, and after leaving the loop it
\* puts nothing.
C8_ObservedFlagCutsProductShort ==
    /\ [](gen_pc = "exited" /\ gen_indices # NoIndices
            => /\ stop_processing
               /\ Len(pushed) < get_total_mnemonic_combinations
               /\ pushed = SubSeq(LexProduct(MNEMONIC_WORDS), 1, Len(pushed)))
    /\ [][gen_pc = "exited" => pushed' = pushed /\ gen_pc' = "exited"]_vars

\* the generator saw the flag after putting part of the product
C8_Witness ==
    /\ gen_pc = "exited"
    /\ gen_indices # NoIndices
    /\ Len(pushed) >= 2

\* every check made so far, by a checker process or by the single-flow loop
AllChecks ==
    UNION { Range(checks[w]) : w \in Procs } \cup Range(st_checks)

\* every message of the parallel variant, wherever it is: still to be put,
\* on the logger queue, or written to the file
MessagesOf(w) == Range(chk_msgs[w])

AllMessages ==
    UNION { MessagesOf(w) : w \in Procs } \cup Range(logger_queue)
        \cup log_file \cup early_msgs

\* C9: a mnemonic whose checksum does not decode is reported as no match,
\* no identifier is derived for it under any passphrase or scheme, and no
\* message or log line about it exists.
C9_BadChecksumDerivesNothing ==
    /\ \A c \in AllChecks :
          ~DecodeOk(c.mnemonic) => ~c.found /\ c.derived = <<>>
    /\ \A msg \in AllMessages \cup Range(st_log) : DecodeOk(msg.mnemonic)
    /\ \A w \in Procs :
          (chk_pc[w] = "check" /\ ~DecodeOk(chk_mnemonic[w])) => ~chk_found[w]

\* a checker has checked a mnemonic that fails the checksum, in a verbose
\* run in which another mnemonic did produce log output
C9_Witness ==
    /\ VERBOSE
    /\ \E w \in Procs : \E k \in DOMAIN checks[w] :
          ~DecodeOk(checks[w][k].mnemonic)
    /\ log_file # {}

\* The scan of one mnemonic in closed form: identifier number k (from 1) of
\* the order passphrases, then the BIP32 paths with their address indices,
\* then the BIP44 accounts with their address indices.
PerPassphrase == get_addresses_per_mnemonic \div Len(MNEMONIC_PASSPHRASES)

Bip32PerPassphrase ==
    IF BIP32_ENABLED THEN Len(BIP32_DERIVATION_PATHS) * BIP32_ADDRESSES_NUM ELSE 0

ScanPassphrase(k) == MNEMONIC_PASSPHRASES[((k - 1) \div PerPassphrase) + 1]

ScanScheme(k) ==
    IF (k - 1) % PerPassphrase < Bip32PerPassphrase THEN "bip32" ELSE "bip44"

ScanAddress(m, k) ==
    LET r == (k - 1) % PerPassphrase
        q == r - Bip32PerPassphrase
    IN  IF r < Bip32PerPassphrase
        THEN Bip32Address(m, ScanPassphrase(k),
                          BIP32_DERIVATION_PATHS[(r \div BIP32_ADDRESSES_NUM) + 1],
                          r % BIP32_ADDRESSES_NUM)
        ELSE Bip44Address(m, ScanPassphrase(k),
                          q \div BIP44_ADDRESSES_NUM, q % BIP44_ADDRESSES_NUM)

ScanOrder(m) == [k \in 1..get_addresses_per_mnemonic |-> ScanAddress(m, k)]

Hits(m) ==
    { k \in 1..get_addresses_per_mnemonic : ScanAddress(m, k) \in ADDRESSES_TO_SEARCH }

Least(h) == CHOOSE k \in h : \A j \in h : k <= j

\* C10: for a mnemonic that decodes, the check derives the identifiers of the
\* scan in order and stops at the first one in ADDRESSES_TO_SEARCH, which is
\* the one it reports (with its passphrase); nothing after it is derived, so
\* no later passphrase is tried.  It reports no match only after deriving
\* the whole scan without a hit.
C10_FirstMatchInScanOrder ==
    LET found_records ==
            { msg \in AllMessages \cup Range(st_log) : msg.kind = "Found" }
    IN  \A c \in AllChecks :
            DecodeOk(c.mnemonic) =>
                LET m == c.mnemonic
                    h == Hits(m)
                    reported == { msg \in found_records : msg.mnemonic = m }
                IN  IF h = {}
                    THEN /\ ~c.found
                         /\ c.derived = ScanOrder(m)
                         /\ reported = {}
                    ELSE /\ c.found
                         /\ c.derived = SubSeq(ScanOrder(m), 1, Least(h))
                         /\ reported =
                              { FoundMsg(ScanScheme(Least(h)),
                                         ScanAddress(m, Least(h)), m,
                                         ScanPassphrase(Least(h))) }

\* a checker found a match under the first passphrase for a mnemonic that
\* also has a matching identifier under the second passphrase
C10_Witness ==
    \E w \in Procs : \E k \in DOMAIN checks[w] :
        LET m == checks[w][k].mnemonic
        IN  /\ checks[w][k].found
            /\ Least(Hits(m)) <= PerPassphrase
            /\ \E j \in Hits(m) : j > PerPassphrase

\* C1: the logger exits only with the flag set and the logger queue drained,
\* so when it has exited every message that was put on the queue before the
\* flag was set has been written to the file, a Found record included.
C1_LoggerDrainsBeforeExit ==
    log_pc = "exited" => logger_queue = <<>> /\ early_msgs \subseteq log_file

\* the processes have been started and each started one has exited
ChildrenExited ==
    /\ gen_pc \in {"exited", "not_started"}
    /\ \A w \in mnemonic_check_processes : chk_pc[w] = "exited"
    /\ log_pc = "exited"

\* C2: in check_all_mnemonics, after a checker has reported a match and set
\* the flag the run ends: once the generator, the checkers and the logger
\* have exited, main is through its joins (at the elapsed-time report) or
\* its pending join can return.
C2_MatchRunTerminates ==
    (MNEMONIC_FIXED = <<>> /\ stop_writers \cap Procs # {} /\ ChildrenExited)
        => (main_pc = "done" \/ ENABLED MainProcess)

\* C5: with the flag set no process is stuck for good: as long as some
\* process has not finished, some step of the system is possible.
C5_NoProcessBlockedForever ==
    (script = "mp" /\ stop_processing)
        => ((ChildrenExited /\ main_pc = "done") \/ ENABLED Next)

CheckedMnemonics ==
    { c.mnemonic : c \in UNION { Range(checks[w]) : w \in Procs } }

CheckersExited ==
    /\ mnemonic_check_processes # {}
    /\ \A w \in mnemonic_check_processes : chk_pc[w] = "exited"

CheckCount(m) ==
    Cardinality({ <<w, k>> \in Procs \X (1..get_total_mnemonic_combinations) :
                    k \in DOMAIN checks[w] /\ checks[w][k].mnemonic = m })

\* no mnemonic of the configured product yields a match
NoMatchInSpace ==
    \A m \in Mnemonics(MNEMONIC_WORDS) : DecodeOk(m) => Hits(m) = {}

RunTerminated == ChildrenExited /\ main_pc = "done"

\* The runs whose configured product holds no match, the parallel ones
\* being searches of the product by at least one checker (no fixed
\* mnemonic, an address to check), every process being scheduled whenever
\* it can take a step.
InitNoMatch ==
    /\ Init
    /\ NoMatchInSpace
    /\ script = "mp" => /\ MNEMONIC_FIXED = <<>>
                        /\ get_total_addresses > 0
                        /\ process_num >= 1

NoMatchFairSpec == InitNoMatch /\ [][Next]_vars /\ Fairness

\* C3: in a parallel run whose product holds no match (the runs of
\* NoMatchFairSpec), no mnemonic is ever checked twice, and the run ends:
\* main returns from all joins with every process exited, the whole product
\* put on the queue and each of its mnemonics checked exactly once, by one
\* checker.
C3_NoMatchRunChecksEachOnce ==
    /\ [](\A m \in Mnemonics(MNEMONIC_WORDS) : CheckCount(m) <= 1)
    /\ <>(script = "mp"
            => /\ RunTerminated
               /\ pushed = LexProduct(MNEMONIC_WORDS)
               /\ mnemonic_queue = <<>>
               /\ \A m \in Mnemonics(MNEMONIC_WORDS) : CheckCount(m) = 1)

\* a no-match run of four mnemonics has ended, both checkers having checked
C3_Witness ==
    /\ script = "mp"
    /\ NoMatchInSpace
    /\ RunTerminated
    /\ Len(pushed) = 4
    /\ \A w \in Procs : checks[w] # <<>>

\* C11: in every state of the parallel variant the mnemonic queue holds at
\* most MNEMONIC_QUEUE_MAX_SIZE mnemonics and the logger queue at most
\* LOG_QUEUE_MAX_SIZE messages, and nothing put is dropped: the mnemonics
\* put are those taken so far followed by those on the queue.
C11_QueuesWithinCapacity ==
    script = "mp" =>
        /\ Len(mnemonic_queue) <= MNEMONIC_QUEUE_MAX_SIZE
        /\ Len(logger_queue) <= LOG_QUEUE_MAX_SIZE
        /\ MNEMONIC_FIXED = <<>> =>
              Len(pushed) = Len(mnemonic_queue)
                  + SeqSum([w \in Procs |-> Len(checks[w])])
        /\ \A k \in DOMAIN mnemonic_queue :
              MNEMONIC_FIXED = <<>> =>
                  mnemonic_queue[k] =
                      pushed[Len(pushed) - Len(mnemonic_queue) + k]

\* the checks worker w started on a mnemonic it pulled with the flag set
LateChecks(w) == { k \in DOMAIN checks[w] : checks[w][k].late }

\* C12 as stated: no worker starts the check of a mnemonic it pulled from
\* the queue after the flag was set, and a worker exits only with the check
\* of the mnemonic it pulled carried to its end.
C12_NoCheckStartsAfterFlag ==
    \A w \in Procs :
        /\ LateChecks(w) = {}
        /\ chk_pc[w] = "exited" => chk_msgs[w] = <<>>

\* C12, amended: a worker exits at its next test of the flag, so it starts
\* at most one check of a mnemonic pulled after the flag was set (the pull
\* that follows a test made before), that check is its last, and a worker
\* exits only with the check of the mnemonic it pulled carried to its end.
C12_AtMostOneCheckAfterFlag ==
    \A w \in Procs :
        /\ Cardinality(LateChecks(w)) <= 1
        /\ \A k \in LateChecks(w) : k = Len(checks[w])
        /\ chk_pc[w] = "exited" => chk_msgs[w] = <<>>
        /\ chk_pc[w] = "exited" => stop_processing

\* a worker that did not set the flag checked a mnemonic it pulled after
\* another worker had set it, and has exited
C12_Witness ==
    \E w \in Procs :
        /\ chk_pc[w] = "exited"
        /\ w \notin stop_writers
        /\ stop_writers \cap Procs # {}
        /\ LateChecks(w) # {}
        /\ Len(checks[w]) >= 2

\* a configuration of the product search that is not valid: a position
\* without any word, or no checker process
InvalidConfig ==
    /\ MNEMONIC_FIXED = <<>>
    /\ \/ \E i \in DOMAIN MNEMONIC_WORDS : Len(MNEMONIC_WORDS[i]) = 0
       \/ process_num = 0

\* C13: with an invalid configuration the parallel script starts no
\* logger, generator or checker process: main is still before the start or
\* has returned.
C13_InvalidConfigRejected ==
    (script = "mp" /\ InvalidConfig)
        => /\ log_pc = "not_started"
           /\ gen_pc = "not_started"
           /\ mnemonic_check_processes = {}
           /\ main_pc \in {"main", "returned"}

\* every message a checker has put on the logger queue so far
PutMessages ==
    UNION { UNION { Range(check_mnemonic(checks[w][k].mnemonic).msgs)
                      : k \in DOMAIN checks[w] } : w \in Procs }
        \ UNION { Range(chk_msgs[w]) : w \in Procs }

\* C14: an interrupt of the parallel script, its processes started, sets
\* the flag, and when the processes have all ended every message put on
\* the logger queue has been written to the file.
C14_InterruptStopsAndDrains ==
    (script = "mp" /\ main_pc = "interrupted" /\ log_pc # "not_started")
        => /\ stop_processing
           /\ (/\ gen_pc \in {"not_started", "exited", "interrupted"}
               /\ log_pc \in {"not_started", "exited", "interrupted"}
               /\ \A w \in Procs :
                     chk_pc[w] \in {"not_started", "exited", "interrupted"})
                 => /\ logger_queue = <<>>
                    /\ PutMessages \subseteq log_file

\* C15: with a fixed mnemonic configured, the parallel script puts exactly
\* that one mnemonic in the pipeline, it is checked at most once and by
\* the one checker, and the run ends whether or not it matches: once the
\* checker and the logger have exited, main is at the elapsed-time report
\* or its pending join can return.
C15_SingleCandidateRunTerminates ==
    (script = "mp" /\ MNEMONIC_FIXED # <<>> /\ log_pc # "not_started")
        => /\ mnemonic_check_processes = {1}
           /\ Len(mnemonic_queue) + Len(checks[1]) = 1
           /\ \A w \in Procs : \A k \in DOMAIN checks[w] :
                 w = 1 /\ checks[w][k].mnemonic = MNEMONIC_FIXED
           /\ ChildrenExited => (main_pc = "done" \/ ENABLED MainProcess)

\* mnemonic m yields a match: it decodes and its scan holds a target
Matches(m) == DecodeOk(m) /\ Hits(m) # {}

\* C16: the single-flow search checks the mnemonics of the product one at
\* a time in product order; the check of a mnemonic reports a match exactly
\* when the mnemonic yields one; a match is the last check made, the search
\* is then over and one Found line is logged; a search that ends without a
\* match has checked the whole product, each element once.
C16_SingleFlowStopsAtFirstMatch ==
    (script = "st" /\ MNEMONIC_FIXED = <<>>) =>
        LET P == LexProduct(MNEMONIC_WORDS)
            found_lines == { k \in DOMAIN st_log : st_log[k].kind = "Found" }
        IN  /\ IsPrefix(StMnemonics, P)
            /\ \A k \in DOMAIN st_checks :
                  /\ st_checks[k].found <=> Matches(P[k])
                  /\ st_checks[k].found
                        => k = Len(st_checks) /\ st_pc = "done"
                  /\ ~Matches(P[k]) => st_checks[k].derived
                        = (IF DecodeOk(P[k]) THEN ScanOrder(P[k]) ELSE <<>>)
            /\ Cardinality(found_lines)
                  = Cardinality({ k \in DOMAIN st_checks : st_checks[k].found })
            /\ (st_pc = "done" /\ \A k \in DOMAIN st_checks : ~st_checks[k].found)
                  => StMnemonics = P

\* the single-flow search ended on a match with mnemonics of the product
\* still to come, none of which it checked
C16_Witness ==
    /\ script = "st"
    /\ MNEMONIC_FIXED = <<>>
    /\ st_pc = "done"
    /\ st_checks # <<>>
    /\ st_checks[Len(st_checks)].found
    /\ Len(st_checks) < Len(LexProduct(MNEMONIC_WORDS))

\* C17: a get that times out on an empty queue changes nothing but the
\* position of the process: the checker (and the logger) goes back to the
\* test of the flag, still alive, with the flag, both queues, their
\* unfinished-task counts, the results and the file as they were; and from
\* the test of the flag it polls again only if the flag is not set.
C17_TimedOutPopChangesNothing ==
    [][/\ \A w \in Procs :
            /\ (/\ chk_pc[w] = "get"
                /\ mnemonic_queue = <<>>
                /\ chk_pc'[w] # chk_pc[w])
                  => /\ chk_pc'[w] = "loop"
                     /\ UNCHANGED <<stop_processing, stop_writers, queue_vars,
                                    chk_mnemonic, chk_msgs, chk_found, checks,
                                    log_file>>
            /\ (chk_pc[w] = "loop" /\ chk_pc'[w] # chk_pc[w])
                  => chk_pc'[w] = (IF stop_processing THEN "exited" ELSE "get")
       /\ (log_pc = "get" /\ logger_queue = <<>> /\ log_pc' # log_pc)
            => /\ log_pc' = "loop"
               /\ UNCHANGED <<stop_processing, stop_writers, queue_vars,
                              log_msg, log_file>>
       /\ (log_pc = "loop" /\ log_pc' # log_pc)
            => log_pc' = (IF stop_processing THEN "exited" ELSE "get")
      ]_vars

\* a checker and the logger are both polling an empty queue, the generator
\* gone: their gets can only time out
C17_Witness ==
    /\ gen_pc = "exited"
    /\ mnemonic_queue = <<>>
    /\ logger_queue = <<>>
    /\ log_pc = "get"
    /\ \E w \in Procs : chk_pc[w] = "get" /\ checks[w] # <<>>

RECURSIVE Concat(_)
Concat(ss) == IF ss = <<>> THEN <<>> ELSE Head(ss) \o Concat(Tail(ss))

\* the messages worker w has put on the logger queue, in the order of its
\* puts: those of its checks in turn, less the ones still to put
EnqueuedBy(w) ==
    LET all == Concat([k \in DOMAIN checks[w] |->
                          check_mnemonic(checks[w][k].mnemonic).msgs])
    IN  SubSeq(all, 1, Len(all) - Len(chk_msgs[w]))

\* the messages of sequence q that are in set S, in the order of q
RECURSIVE Restrict(_, _)
Restrict(q, S) ==
    IF q = <<>> THEN <<>>
    ELSE IF Head(q) \in S THEN <<Head(q)>> \o Restrict(Tail(q), S)
    ELSE Restrict(Tail(q), S)

\* the positions in sequence e of the messages written to the file
Written(e) == { k \in DOMAIN e : e[k] \in log_file }

\* C18: every write of the logger appends the message at the head of the
\* logger queue, which it removes and had not written before, and every
\* message removed is written; so of the messages one worker has put, in
\* its order, the written ones are an initial part and the ones on the
\* queue follow in the same order.
C18_LoggerWritesInDequeueOrder ==
    /\ [][/\ log_file' # log_file
              => /\ logger_queue # <<>>
                 /\ Head(logger_queue) \notin log_file
                 /\ log_file' = log_file \cup {Head(logger_queue)}
                 /\ logger_queue' = Tail(logger_queue)
          /\ Len(logger_queue') < Len(logger_queue)
              => log_file' # log_file
         ]_vars
    /\ [](\A w \in Procs :
            LET e == EnqueuedBy(w)
                written == Written(e)
                n == Cardinality(written)
                q == Restrict(logger_queue, Range(e))
            IN  /\ written = 1..n
                /\ q = SubSeq(e, Len(e) - Len(q) + 1, Len(e))
                /\ n + Len(q) = Len(e))

\* the file holds two messages of one worker and a message of another
C18_Witness ==
    \E w1, w2 \in Procs :
        /\ w1 # w2
        /\ Cardinality(Written(EnqueuedBy(w1))) >= 2
        /\ Cardinality(Written(EnqueuedBy(w2))) >= 1

\* C19: when main is about to set the flag, and at the step that sets it,
\* the flag is still false (no checker found a match), the generator has
\* exited (or, with a fixed mnemonic, was never started), the mnemonic
\* queue is empty with no unfinished task, every check is over with its
\* messages put, and the logger queue is empty with no unfinished task,
\* every message put having been written.
C19_MainStopsAfterDrain ==
    /\ [](main_pc = "set_stop"
            => /\ ~stop_processing
               /\ gen_pc = (IF MNEMONIC_FIXED = <<>> THEN "exited"
                            ELSE "not_started")
               /\ mnemonic_queue = <<>>
               /\ mnemonic_unfinished = 0
               /\ logger_queue = <<>>
               /\ logger_unfinished = 0
               /\ \A w \in Procs :
                     /\ chk_pc[w] \in {"not_started", "loop", "get"}
                     /\ chk_msgs[w] = <<>>
                     /\ Range(EnqueuedBy(w)) \subseteq log_file)
    /\ [][(Main \in stop_writers' /\ Main \notin stop_writers)
            => main_pc = "set_stop" /\ stop_processing']_vars
    /\ [](Main \in stop_writers => stop_writers = {Main})

\* main has set the flag at the end of a search of several mnemonics that
\* produced log output
C19_Witness ==
    /\ Main \in stop_writers
    /\ main_pc = "join_checkers"
    /\ Len(pushed) >= 2
    /\ log_file # {}

\* the mnemonics put on the mnemonic queue so far: by the generator, or the
\* fixed one by check_single_mnemonic
PutCount ==
    Len(pushed)
      + (IF MNEMONIC_FIXED # <<>> /\ log_pc # "not_started" THEN 1 ELSE 0)

\* the checks that have finished: those started, less the ones under way
FinishedCount ==
    SeqSum([w \in Procs |->
               Len(checks[w]) - (IF chk_pc[w] = "check" THEN 1 ELSE 0)])

\* C20: every mnemonic a checker takes is acknowledged once when its check
\* has finished, a match included: the unfinished-task count of the
\* mnemonic queue is the number of mnemonics put less the number of checks
\* finished.
C20_TaskDoneOncePerCheck ==
    script = "mp" => mnemonic_unfinished = PutCount - FinishedCount

\* the Found records among the messages or lines of a set
FoundIn(S) == { msg \in S : msg.kind = "Found" }

\* C21: in a search of the product by N >= 1 checkers, the parallel script
\* reports a match (a Found record in its file once its processes have
\* exited) exactly when the single-flow search of the same configuration
\* reports one, and it never produces a Found record when the single-flow
\* search reports none; with one checker it checks the mnemonics in the
\* order of the single-flow search, no further than that search, and the
\* Found record in its file is the single-flow one (mnemonic, passphrase
\* and address).
C21_ParallelReportsAsSingleFlow ==
    (script = "mp" /\ MNEMONIC_FIXED = <<>> /\ process_num >= 1)
        => LET st == find_mnemonic(FirstIndices, <<>>, <<>>)
               st_found == FoundIn(Range(st.lines))
           IN  /\ st.found <=> st_found # {}
               /\ FoundIn(AllMessages) # {} => st.found
               /\ (ChildrenExited /\ log_pc = "exited")
                     => (FoundIn(log_file) # {} <=> st.found)
               /\ process_num = 1
                     => /\ IsPrefix([k \in DOMAIN checks[1] |->
                                       checks[1][k].mnemonic], st.checked)
                        /\ (ChildrenExited /\ log_pc = "exited")
                              => FoundIn(log_file) = st_found

\* the Found record of the match of mnemonic m: the first target of its
\* scan, with scheme and passphrase
FoundRecord(m) ==
    FoundMsg(ScanScheme(Least(Hits(m))), ScanAddress(m, Least(Hits(m))), m,
             ScanPassphrase(Least(Hits(m))))

\* C22: a checker sets the flag only for a mnemonic that yields a match,
\* and with the Found record of that match already put: at the step that
\* sets the flag the record is on the logger queue or in the file, and it
\* is there (or in the file) ever after.
C22_FoundEnqueuedBeforeStop ==
    /\ [][\A w \in Procs :
              (w \in stop_writers' /\ w \notin stop_writers)
                  => /\ Matches(chk_mnemonic[w])
                     /\ FoundRecord(chk_mnemonic[w])
                           \in Range(logger_queue) \cup log_file
         ]_vars
    /\ [](\A w \in stop_writers \cap Procs :
              /\ stop_processing
              /\ chk_msgs[w] = <<>>
              /\ FoundRecord(chk_mnemonic[w])
                    \in Range(logger_queue) \cup log_file)

\* a checker of the product search has set the flag and its Found record
\* is still on the logger queue
C22_Witness ==
    \E w \in stop_writers \cap Procs :
        /\ MNEMONIC_FIXED = <<>>
        /\ FoundRecord(chk_mnemonic[w]) \in Range(logger_queue)
        /\ Len(checks[w]) >= 2

====
